---- MODULE Spec2Model ----
(***************************************************************************)
(* Model of run_capture (src/kindle_to_pdf.py): the capture loop, the      *)
(* verification-mode check, post-processing, assembly and clean-up.        *)
(*                                                                         *)
(* A frame is represented by its fingerprint (the MD5 digest of its        *)
(* bytes): the Frame Store `files` maps the page indices of the files      *)
(* page_NNNN.png present in the session folder to their fingerprints.      *)
(* The environment chooses, per iteration, whether the window bounds are   *)
(* available, whether screencapture succeeds and which fingerprint the     *)
(* captured frame has, and it may raise KeyboardInterrupt at any point of  *)
(* the try block.                                                          *)
(***************************************************************************)
EXTENDS Integers, Sequences, FiniteSets

\* ---------------------------------------------------------------- bounds
\* largest max_pages argument, longest all-distinct scripted feed
MaxPagesArg == 4
MaxFeedLen == 4
\* most books named after --books
MaxBooks == 2

\* ------------------------------------------------------ program constants
TestPages == 5
DupLimit == 5
WarnLimit == 10
TestMinFrames == 3
SetupRetries == 5

\* ------------------------------------------------------------ vocabulary
None == "None"
Fail == "Fail"
Rect == "Rect"
A == "A"
B == "B"
C == "C"
D == "D"
Hashes == {A, B, C, D}
BookNames == {"X", "Y"}
\* what run_capture returns: the path of the PDF, or None
RunResults == {"pdf", "None"}

VARIABLES
    pc,            \* position in run_capture
    test_mode,     \* argument test_mode
    max_pages,     \* argument max_pages (overwritten in test mode)
    folder,        \* TRUE while the session folder exists
    files,         \* Frame Store: page index |-> fingerprint
    processed,     \* indices process_images has rewritten
    bounds,        \* the window rectangle in use, or None
    bounds_stale,  \* the last re-query returned None
    page, last_hash, same_count, failed_turns,   \* loop variables
    term,          \* how the loop ended: Running until then
    warned,        \* the failed_turns warning was printed
    advances,      \* calls of next_page in the current iteration
    asm,           \* what images_to_pdf returned: "none" before the call
    pdf,           \* the output document, one fingerprint per page
    result,        \* return value: "none" (not returned yet), "pdf", "None"
    \* the environment
    scripted,      \* TRUE: the captures follow feed; FALSE: any outcome
    screens,       \* the fingerprints an unscripted capture can have
    feed,          \* scripted capture outcomes: fingerprints and Fail
    fpos,          \* number of outcomes of feed already delivered
    \* history of the run, not read by the program
    ndiff,         \* compared fingerprints that differ from their predecessor
    prevfed,       \* the fingerprint compared last
    eqrun,         \* length of the run of equal fingerprints compared last
    nfail,         \* failed captures
    iters,         \* iterations of the loop begun
    \* main, process_multiple_books and run_capture_auto
    mpc,           \* position in main and the functions it calls
    args_test, args_auto,     \* --test, --auto
    args_books,    \* the names after --books, <<>> when it is not given
    retry,         \* the loop variable of the retry loop being run
    bi,            \* books of args_books already processed
    results,       \* the dict of process_multiple_books
    yielded,       \* history: what each requested run yielded, in order
    exit_code      \* the exit status of the process, -1 while it runs

rvars == <<pc, test_mode, max_pages, folder, files, processed, bounds,
          bounds_stale,
          page, last_hash, same_count, failed_turns, term, warned, advances,
          asm, pdf, result, scripted, screens, feed, fpos, ndiff, prevfed,
          eqrun, nfail, iters>>

mvars == <<mpc, args_test, args_auto, args_books, retry, bi, results, yielded,
           exit_code>>

vars == <<rvars, mvars>>

hist == <<scripted, screens, feed, fpos, ndiff, prevfed, eqrun, nfail, iters>>

\* ------------------------------------------------------------ helpers
EmptyStore == [i \in {} |-> None]

\* no output document has been written
NoDoc == [exists |-> FALSE, pages |-> <<>>]

\* capture_window succeeded: the file of index p now holds a frame of
\* fingerprint h (screencapture overwrites an existing file)
WriteFrame(fs, p, h) ==
    [i \in (DOMAIN fs) \cup {p} |-> IF i = p THEN h ELSE fs[i]]

\* output_path.unlink()
Unlink(fs, p) == [i \in (DOMAIN fs) \ {p} |-> fs[i]]

\* get_image_hash of the file of index p
get_image_hash(fs, p) == fs[p]

Min(S) == CHOOSE x \in S : \A y \in S : x <= y

\* sorted(folder.glob("page_*.png")): the zero-padded names sort by index
RECURSIVE SortedIdx(_)
SortedIdx(S) == IF S = {} THEN <<>>
                ELSE <<Min(S)>> \o SortedIdx(S \ {Min(S)})

\* images_to_pdf without the check for an empty folder
images_to_pdf_unguarded(fs) ==
    LET image_files == SortedIdx(DOMAIN fs) IN
    [ok |-> TRUE,
     doc |-> [exists |-> TRUE,
              pages |-> [k \in 1..Len(image_files) |-> fs[image_files[k]]]]]

\* images_to_pdf: fails on an empty folder, else one page per file in
\* sorted order
images_to_pdf(fs) ==
    LET image_files == SortedIdx(DOMAIN fs) IN
    IF image_files = <<>>
    THEN [ok |-> FALSE, doc |-> NoDoc]
    ELSE [ok |-> TRUE,
          doc |-> [exists |-> TRUE,
                   pages |-> [k \in 1..Len(image_files) |->
                                 fs[image_files[k]]]]]

\* n copies of h
Rep(h, n) == [i \in 1..n |-> h]

\* scripted feeds: every feed of at most MaxFeedLen fingerprints in which
\* consecutive fingerprints differ, and every feed made of at most one
\* fingerprint or failure followed by a run of one fingerprint
DistinctFeeds ==
    {f \in UNION {[1..n -> Hashes] : n \in 0..MaxFeedLen} :
        \A i \in 1..(Len(f) - 1) : f[i] # f[i + 1]}
RunFeeds ==
    {p \o Rep(h, n) : p \in {<<>>} \cup {<<o>> : o \in Hashes \cup {Fail}},
                      h \in Hashes, n \in 1..(DupLimit + 2)}
Feeds == DistinctFeeds \cup RunFeeds

\* the ceiling left as passed in test mode
TestCeilingForgotten(tm, m) == m

\* lines 513-514: test mode overrides max_pages
TestCeiling(tm, m) == IF tm THEN TestPages ELSE m

\* the re-queried bounds taken even when they are None
BoundsOverwritten(current_bounds, b) == current_bounds

\* lines 570-572: an unavailable re-query keeps the previous bounds
BoundsAfterRequery(current_bounds, b) ==
    IF current_bounds # None THEN current_bounds ELSE b

\* the loop condition letting one more iteration through
WhileTestInclusive(p, m) == p <= m

\* line 561: the loop condition
WhileTest(p, m) == p < m

\* a failed capture that gives the tentative index back
FailedPageRetry(p) == p - 1

\* line 577: the page counter after a failed capture (continue, no rollback)
FailedPage(p) == p

\* a failed capture that starts the duplicate count afresh
FailedCountReset(sc) == 0

\* line 577: same_count after a failed capture (continue touches nothing)
FailedCount(sc) == sc

\* a duplicate decision that takes the first frame for a duplicate
IsDuplicateOrFirst(current_hash, last) ==
    current_hash = last \/ last = None

\* line 582: the duplicate decision
IsDuplicate(current_hash, last) == current_hash = last

\* a new frame that leaves the remembered fingerprint as it was
NewLastKept(current_hash, last) == last

\* line 601: the fingerprint remembered after a new frame
NewLast(current_hash, last) == current_hash

\* a duplicate that keeps the tentative index
RolledBackNot(p) == p

\* line 585: the page counter after a duplicate
RolledBack(p) == p - 1

\* the trigger firing one duplicate early
IsEndOfDocumentEarly(sc) == sc >= DupLimit - 1

\* the trigger firing one duplicate late
IsEndOfDocumentLate(sc) == sc > DupLimit

\* line 587: the end-of-document trigger
IsEndOfDocument(sc) == sc >= DupLimit

\* the verification check applied outside test mode too
TestFailsAnyMode(tm, fs) == ~(Cardinality(DOMAIN fs) >= TestMinFrames)

\* the verification check asking for one frame more
TestFailsStrict(tm, fs) ==
    tm /\ ~(Cardinality(DOMAIN fs) >= TestMinFrames + 1)

\* lines 620-624: the verification check fails
TestFails(tm, fs) == tm /\ ~(Cardinality(DOMAIN fs) >= TestMinFrames)

\* a run that assembles without post-processing
PhaseAfterCheckSkipping == "pdf"

\* lines 619-633: after the verification check comes process_images
PhaseAfterCheck == "process"

\* the folder removed whatever images_to_pdf returned
FolderKeptNever(ok) == FALSE

\* lines 641-652: the folder is removed exactly when images_to_pdf succeeded
FolderKept(ok) == ~ok

\* an iteration that skips the advance signal
AdvancedNot(n) == n

\* line 611: one call of next_page
Advanced(n) == n + 1

LoopPcs == {"while", "capture", "hash", "unlink", "dec", "check",
            "sethash", "advance"}

\* ------------------------------------------------------------ initial state
\* main has called run_capture and is not touched until it returns
MainInCall ==
    /\ mpc = "run_capture"
    /\ args_test = FALSE
    /\ args_auto = FALSE
    /\ args_books = <<>>
    /\ retry = 0
    /\ bi = 0
    /\ results = EmptyStore
    /\ yielded = <<>>
    /\ exit_code = -1

Init ==
    /\ MainInCall
    /\ pc = "entry"
    /\ test_mode \in BOOLEAN
    /\ max_pages \in 0..MaxPagesArg
    /\ folder = FALSE
    /\ files = EmptyStore
    /\ processed = {}
    /\ bounds = None
    /\ bounds_stale = FALSE
    /\ page = 0
    /\ last_hash = None
    /\ same_count = 0
    /\ failed_turns = 0
    /\ term = "Running"
    /\ warned = FALSE
    /\ advances = 0
    /\ asm = "none"
    /\ pdf = NoDoc
    /\ result = "none"
    /\ \/ scripted = FALSE /\ feed = <<>> /\ screens \in {{A, B}, Hashes}
       \/ scripted = TRUE /\ feed \in Feeds /\ screens = Hashes
    /\ fpos = 0
    /\ ndiff = 0
    /\ prevfed = None
    /\ eqrun = 0
    /\ nfail = 0
    /\ iters = 0

\* ------------------------------------------------------------ actions

\* lines 513-558: test mode sets the ceiling, the folder is made, the bounds
\* are read (None: return None), the loop variables are initialised
Entry ==
    /\ pc = "entry"
    /\ max_pages' = TestCeiling(test_mode, max_pages)
    /\ folder' = TRUE
    /\ \E b \in {Rect, None} :
          /\ bounds' = b
          /\ IF b # None
             THEN /\ pc' = "while"
                  /\ result' = result
             ELSE /\ pc' = "done"
                  /\ result' = "None"
    /\ last_hash' = None
    /\ same_count' = 0
    /\ page' = 0
    /\ failed_turns' = 0
    /\ UNCHANGED <<test_mode, files, processed, bounds_stale, term, warned,
                   advances, asm, pdf>>
    /\ UNCHANGED hist
    /\ UNCHANGED mvars

\* lines 561-572: the while test; page += 1; activate; re-query the bounds
\* (None keeps the previous bounds)
LoopHead ==
    /\ pc = "while"
    /\ IF WhileTest(page, max_pages)
       THEN /\ page' = page + 1
            /\ \E current_bounds \in {Rect, None} :
                  /\ bounds_stale' = (current_bounds = None)
                  /\ bounds' = BoundsAfterRequery(current_bounds, bounds)
            /\ advances' = 0
            /\ iters' = iters + 1
            /\ pc' = "capture"
            /\ term' = term
       ELSE /\ term' = "Ceiling"
            /\ pc' = "after"
            /\ UNCHANGED <<page, bounds, bounds_stale, advances, iters>>
    /\ UNCHANGED <<test_mode, max_pages, folder, files, processed, last_hash,
                   same_count, failed_turns, warned, asm, pdf, result>>
    /\ UNCHANGED <<scripted, screens, feed, fpos, ndiff, prevfed, eqrun,
                   nfail>>
    /\ UNCHANGED mvars

\* lines 574-577: capture_window with the bounds in use (None cannot be
\* unpacked and is not captured with); a failure prints a warning and
\* continues
Capture ==
    /\ pc = "capture"
    /\ bounds # None
    /\ \E o \in screens \cup {Fail} :
          /\ scripted => fpos < Len(feed) /\ o = feed[fpos + 1]
          /\ fpos' = IF scripted THEN fpos + 1 ELSE fpos
          /\ IF o # Fail
             THEN /\ files' = WriteFrame(files, page, o)
                  /\ pc' = "hash"
                  /\ nfail' = nfail
                  /\ page' = page
                  /\ same_count' = same_count
                  /\ bounds_stale' = bounds_stale
             ELSE /\ pc' = "while"
                  /\ nfail' = nfail + 1
                  /\ files' = files
                  /\ page' = FailedPage(page)
                  /\ same_count' = FailedCount(same_count)
                  /\ bounds_stale' = FALSE
    /\ UNCHANGED <<test_mode, max_pages, folder, processed, bounds, last_hash,
                   failed_turns, term, warned, advances, asm, pdf, result>>
    /\ UNCHANGED <<scripted, screens, feed, ndiff, prevfed, eqrun, iters>>
    /\ UNCHANGED mvars

\* the history of compared fingerprints after h is compared
Feed(h) ==
    /\ ndiff' = IF h # prevfed THEN ndiff + 1 ELSE ndiff
    /\ eqrun' = IF h = prevfed THEN eqrun + 1 ELSE 1
    /\ prevfed' = h
    /\ UNCHANGED <<scripted, screens, feed, fpos, nfail, iters>>

\* lines 580-583 and 599-600: the fingerprint is computed and compared;
\* a duplicate counts, a new one resets both counters
HashCompare ==
    /\ pc = "hash"
    /\ LET current_hash == get_image_hash(files, page) IN
       /\ Feed(current_hash)
       /\ IF IsDuplicate(current_hash, last_hash)
          THEN /\ same_count' = same_count + 1
               /\ failed_turns' = failed_turns
               /\ pc' = "unlink"
          ELSE /\ same_count' = 0
               /\ failed_turns' = 0
               /\ pc' = "sethash"
    /\ bounds_stale' = FALSE
    /\ UNCHANGED <<test_mode, max_pages, folder, files, processed, bounds,
                   page, last_hash, term, warned, advances, asm, pdf,
                   result>>
    /\ UNCHANGED mvars

\* line 584
UnlinkDup ==
    /\ pc = "unlink"
    /\ files' = Unlink(files, page)
    /\ pc' = "dec"
    /\ UNCHANGED <<test_mode, max_pages, folder, processed, bounds, bounds_stale,
                   page, last_hash, same_count, failed_turns, term, warned,
                   advances, asm, pdf, result>>
    /\ UNCHANGED hist
    /\ UNCHANGED mvars

\* line 585
RollBack ==
    /\ pc = "dec"
    /\ page' = RolledBack(page)
    /\ pc' = "check"
    /\ UNCHANGED <<test_mode, max_pages, folder, files, processed,
                   bounds, bounds_stale, last_hash, same_count, failed_turns, term,
                   warned, advances, asm, pdf, result>>
    /\ UNCHANGED hist
    /\ UNCHANGED mvars

\* lines 587-597: the end-of-document break, else the retry counter and its
\* warning
DupCheck ==
    /\ pc = "check"
    /\ IF IsEndOfDocument(same_count)
       THEN /\ term' = "Complete"
            /\ pc' = "after"
            /\ UNCHANGED <<failed_turns, warned>>
       ELSE /\ failed_turns' = failed_turns + 1
            /\ warned' = (warned \/ failed_turns + 1 >= WarnLimit)
            /\ pc' = "advance"
            /\ term' = term
    /\ UNCHANGED <<test_mode, max_pages, folder, files, processed,
                   bounds, bounds_stale, page, last_hash, same_count, advances, asm,
                   pdf, result>>
    /\ UNCHANGED hist
    /\ UNCHANGED mvars

\* line 601
SetHash ==
    /\ pc = "sethash"
    /\ last_hash' = NewLast(get_image_hash(files, page), last_hash)
    /\ pc' = "advance"
    /\ UNCHANGED <<test_mode, max_pages, folder, files, processed,
                   bounds, bounds_stale, page, same_count, failed_turns, term, warned,
                   advances, asm, pdf, result>>
    /\ UNCHANGED hist
    /\ UNCHANGED mvars

\* lines 610-612
Advance ==
    /\ pc = "advance"
    /\ advances' = Advanced(advances)
    /\ pc' = "while"
    /\ UNCHANGED <<test_mode, max_pages, folder, files, processed,
                   bounds, bounds_stale, page, last_hash, same_count, failed_turns,
                   term, warned, asm, pdf, result>>
    /\ UNCHANGED hist
    /\ UNCHANGED mvars

\* lines 560, 614-615: KeyboardInterrupt raised anywhere in the try block
Interrupt ==
    /\ pc \in LoopPcs
    /\ term' = "Cancelled"
    /\ pc' = "after"
    /\ UNCHANGED <<test_mode, max_pages, folder, files, processed,
                   bounds, bounds_stale, page, last_hash, same_count, failed_turns,
                   warned, advances, asm, pdf, result>>
    /\ UNCHANGED hist
    /\ UNCHANGED mvars

\* lines 617-630: in test mode fewer than 3 files end the run
TestCheck ==
    /\ pc = "after"
    /\ IF TestFails(test_mode, files)
       THEN /\ folder' = FALSE
            /\ files' = EmptyStore
            /\ result' = "None"
            /\ pc' = "done"
       ELSE /\ pc' = PhaseAfterCheck
            /\ UNCHANGED <<folder, files, result>>
    /\ UNCHANGED <<test_mode, max_pages, processed, bounds, bounds_stale, page,
                   last_hash, same_count, failed_turns, term, warned,
                   advances, asm, pdf>>
    /\ UNCHANGED hist
    /\ UNCHANGED mvars

\* line 633
ProcessImages ==
    /\ pc = "process"
    /\ processed' = DOMAIN files
    /\ pc' = "pdf"
    /\ UNCHANGED <<test_mode, max_pages, folder, files, bounds, bounds_stale, page,
                   last_hash, same_count, failed_turns, term, warned,
                   advances, asm, pdf, result>>
    /\ UNCHANGED hist
    /\ UNCHANGED mvars

\* lines 636-652: images_to_pdf; on success the folder is removed and the
\* path returned, on failure None is returned and the folder stays
Assemble ==
    /\ pc = "pdf"
    /\ LET r == images_to_pdf(files) IN
       /\ asm' = IF r.ok THEN "ok" ELSE "failed"
       /\ pdf' = r.doc
       /\ result' = IF r.ok THEN "pdf" ELSE "None"
       /\ folder' = FolderKept(r.ok)
       /\ files' = IF FolderKept(r.ok) THEN files ELSE EmptyStore
    /\ pc' = "done"
    /\ UNCHANGED <<test_mode, max_pages, processed, bounds, bounds_stale, page,
                   last_hash, same_count, failed_turns, term, warned,
                   advances>>
    /\ UNCHANGED hist
    /\ UNCHANGED mvars

Next ==
    \/ Entry
    \/ LoopHead
    \/ Capture
    \/ HashCompare
    \/ UnlinkDup
    \/ RollBack
    \/ DupCheck
    \/ SetHash
    \/ Advance
    \/ Interrupt
    \/ TestCheck
    \/ ProcessImages
    \/ Assemble

Spec == Init /\ [][Next]_vars

\* the runs in which no KeyboardInterrupt is raised and capture_window may
\* return any outcome at every call; the loop reads a fingerprint only to
\* compare it with last_hash, so two fingerprints produce every sequence of
\* failures, duplicates and new frames
InitLive == Init /\ scripted = FALSE /\ screens = {A, B}

NextUninterrupted ==
    \/ Entry
    \/ LoopHead
    \/ Capture
    \/ HashCompare
    \/ UnlinkDup
    \/ RollBack
    \/ DupCheck
    \/ SetHash
    \/ Advance
    \/ TestCheck
    \/ ProcessImages
    \/ Assemble

\* run_capture is sequential code: while a statement is left to execute,
\* one is executed, and every call it makes returns
FairSpec ==
    InitLive /\ [][NextUninterrupted]_vars /\ WF_vars(NextUninterrupted)

\* ------------------------------------------- main and the functions it calls
\* run_capture is represented here by what it returns (RunResults, the
\* values result takes at pc = "done" above); its variables stay as they
\* are at its entry.

\* every sequence of at most MaxBooks names, <<>> for an absent --books
BookLists == UNION {[1..n -> BookNames] : n \in 0..MaxBooks}

\* run_capture not called yet
RunIdle ==
    /\ pc = "entry"
    /\ test_mode = FALSE
    /\ max_pages = 0
    /\ folder = FALSE
    /\ files = EmptyStore
    /\ processed = {}
    /\ bounds = None
    /\ bounds_stale = FALSE
    /\ page = 0
    /\ last_hash = None
    /\ same_count = 0
    /\ failed_turns = 0
    /\ term = "Running"
    /\ warned = FALSE
    /\ advances = 0
    /\ asm = "none"
    /\ pdf = NoDoc
    /\ result = "none"
    /\ scripted = FALSE
    /\ screens = Hashes
    /\ feed = <<>>
    /\ fpos = 0
    /\ ndiff = 0
    /\ prevfed = None
    /\ eqrun = 0
    /\ nfail = 0
    /\ iters = 0

\* lines 827-834: the command line (nargs='+' gives --books one name at least)
InitMain ==
    /\ RunIdle
    /\ mpc = "start"
    /\ args_test \in BOOLEAN
    /\ args_auto \in BOOLEAN
    /\ args_books \in BookLists
    /\ retry = 0
    /\ bi = 0
    /\ results = EmptyStore
    /\ yielded = <<>>
    /\ exit_code = -1

\* sys.exit(code)
Exit(code) ==
    /\ exit_code' = code
    /\ mpc' = "exited"

\* lines 884, 909-917: 0 for a path, 1 for None
ExitCode(r) == IF r # "None" THEN 0 ELSE 1

\* results[book_name] = None for every book: lines 744-745, 766-767
AllNone(book_names) ==
    [n \in {book_names[i] : i \in 1..Len(book_names)} |-> "None"]

\* results[book_name] = result: line 773
Store(d, n, r) == [k \in (DOMAIN d) \cup {n} |-> IF k = n THEN r ELSE d[k]]

\* line 889: all(v for v in results.values())
AllTruthy(d) == \A k \in DOMAIN d : d[k] # "None"

\* lines 843-848: launch Kindle unless it runs
MainLaunch ==
    /\ mpc = "start"
    /\ \E running \in BOOLEAN, launched \in BOOLEAN :
          IF running \/ launched
          THEN /\ mpc' = "window"
               /\ exit_code' = exit_code
          ELSE Exit(1)
    /\ retry' = 0
    /\ UNCHANGED <<args_test, args_auto, args_books, bi, results, yielded>>
    /\ UNCHANGED rvars

\* lines 856-864: five looks for the window, then exit 1
MainWindow ==
    /\ mpc = "window"
    /\ IF retry < SetupRetries
       THEN /\ \E exists \in BOOLEAN :
                  IF exists
                  THEN mpc' = "geometry" /\ retry' = retry
                  ELSE mpc' = mpc /\ retry' = retry + 1
            /\ exit_code' = exit_code
       ELSE /\ Exit(1)
            /\ retry' = retry
    /\ UNCHANGED <<args_test, args_auto, args_books, bi, results, yielded>>
    /\ UNCHANGED rvars

\* lines 867-870
MainGeometry ==
    /\ mpc = "geometry"
    /\ \E b \in {Rect, None} :
          IF b # None
          THEN /\ mpc' = "dispatch"
               /\ exit_code' = exit_code
          ELSE Exit(1)
    /\ UNCHANGED <<args_test, args_auto, args_books, retry, bi, results,
                   yielded>>
    /\ UNCHANGED rvars

\* lines 874, 887, 895: --test first, then --books, then --auto
Dispatch ==
    /\ mpc = "dispatch"
    /\ mpc' = IF args_test THEN "test"
              ELSE IF args_books # <<>> THEN "books"
              ELSE IF args_auto THEN "auto"
              ELSE "manual"
    /\ UNCHANGED <<args_test, args_auto, args_books, retry, bi, results,
                   yielded, exit_code>>
    /\ UNCHANGED rvars

\* lines 879-884: run_capture("test", test_mode=True), exit by its result
TestRun ==
    /\ mpc = "test"
    /\ \E r \in RunResults :
          /\ yielded' = Append(yielded, r)
          /\ Exit(ExitCode(r))
    /\ UNCHANGED <<args_test, args_auto, args_books, retry, bi, results>>
    /\ UNCHANGED rvars

\* lines 906-917: run_capture(book_name, ...), exit by its result
ManualRun ==
    /\ mpc = "manual"
    /\ \E r \in RunResults :
          /\ yielded' = Append(yielded, r)
          /\ Exit(ExitCode(r))
    /\ UNCHANGED <<args_test, args_auto, args_books, retry, bi, results>>
    /\ UNCHANGED rvars

\* run_capture_auto returns r: to main (lines 897, 909-917) or to the loop
\* of process_multiple_books (lines 772-773)
AutoReturn(r) ==
    /\ yielded' = Append(yielded, r)
    /\ IF args_books # <<>> /\ ~args_test
       THEN /\ results' = Store(results, args_books[bi + 1], r)
            /\ bi' = bi + 1
            /\ mpc' = "books_loop"
            /\ exit_code' = exit_code
       ELSE /\ Exit(ExitCode(r))
            /\ UNCHANGED <<results, bi>>

\* lines 672-685: launch Kindle unless it runs; search_and_open_book
\* returns True on every path
AutoLaunch ==
    /\ mpc = "auto"
    /\ \E running \in BOOLEAN, launched \in BOOLEAN :
          IF running \/ launched
          THEN /\ mpc' = "auto_bounds"
               /\ UNCHANGED <<bi, results, yielded, exit_code>>
          ELSE AutoReturn("None")
    /\ retry' = 0
    /\ UNCHANGED <<args_test, args_auto, args_books>>
    /\ UNCHANGED rvars

\* lines 697-709: five tries for bounds higher than 100 px; after them only
\* missing bounds return None
AutoBounds ==
    /\ mpc = "auto_bounds"
    /\ \E b \in {Rect, "Low", None} :
          IF b = Rect \/ (retry + 1 = SetupRetries /\ b # None)
          THEN /\ mpc' = "auto_run"
               /\ retry' = retry
               /\ UNCHANGED <<bi, results, yielded, exit_code>>
          ELSE IF retry + 1 < SetupRetries
          THEN /\ mpc' = mpc
               /\ retry' = retry + 1
               /\ UNCHANGED <<bi, results, yielded, exit_code>>
          ELSE /\ AutoReturn("None")
               /\ retry' = retry
    /\ UNCHANGED <<args_test, args_auto, args_books>>
    /\ UNCHANGED rvars

\* lines 714-720
AutoRun ==
    /\ mpc = "auto_run"
    /\ \E r \in RunResults : AutoReturn(r)
    /\ UNCHANGED <<args_test, args_auto, args_books, retry>>
    /\ UNCHANGED rvars

\* lines 734-746: launch_kindle failed: None for every book
BooksLaunch ==
    /\ mpc = "books"
    /\ \E launched \in BOOLEAN :
          IF launched
          THEN /\ mpc' = "books_bounds"
               /\ results' = EmptyStore
          ELSE /\ mpc' = "books_done"
               /\ results' = AllNone(args_books)
    /\ retry' = 0
    /\ UNCHANGED <<args_test, args_auto, args_books, bi, yielded, exit_code>>
    /\ UNCHANGED rvars

\* lines 756-768: five tries for the bounds, else None for every book
BooksBounds ==
    /\ mpc = "books_bounds"
    /\ IF retry < SetupRetries
       THEN /\ \E b \in {Rect, None} :
                  IF b # None
                  THEN mpc' = "books_loop" /\ retry' = retry
                  ELSE mpc' = mpc /\ retry' = retry + 1
            /\ results' = results
       ELSE /\ mpc' = "books_done"
            /\ results' = AllNone(args_books)
            /\ retry' = retry
    /\ UNCHANGED <<args_test, args_auto, args_books, bi, yielded, exit_code>>
    /\ UNCHANGED rvars

\* lines 770-772, 784-799: the next book, or the summary and return
BooksLoop ==
    /\ mpc = "books_loop"
    /\ mpc' = IF bi < Len(args_books) THEN "auto" ELSE "books_done"
    /\ UNCHANGED <<args_test, args_auto, args_books, retry, bi, results,
                   yielded, exit_code>>
    /\ UNCHANGED rvars

\* lines 888-890
BooksExit ==
    /\ mpc = "books_done"
    /\ Exit(IF AllTruthy(results) THEN 0 ELSE 1)
    /\ UNCHANGED <<args_test, args_auto, args_books, retry, bi, results,
                   yielded>>
    /\ UNCHANGED rvars

NextMain ==
    \/ MainLaunch
    \/ MainWindow
    \/ MainGeometry
    \/ Dispatch
    \/ TestRun
    \/ ManualRun
    \/ AutoLaunch
    \/ AutoBounds
    \/ AutoRun
    \/ BooksLaunch
    \/ BooksBounds
    \/ BooksLoop
    \/ BooksExit

MainSpec == InitMain /\ [][NextMain]_vars


\* ------------------------------------------------------------ claims
Retained == DOMAIN files
Boundary == pc = "while"
LoopEndedItself == pc = "after" /\ term \in {"Complete", "Ceiling"}
NoAdjacentDuplicate ==
    \A i \in Retained : (i - 1) \in Retained => files[i] # files[i - 1]
FeedAB5 == <<A, B, B, B, B, B>>
FeedAB6 == <<A, B, B, B, B, B, B>>
StoreAB == Retained = {1, 2} /\ files[1] = A /\ files[2] = B

\* C1: at every iteration boundary and when the loop ends by itself, the
\* retained frame indices are exactly 1..page.
C1Claim == (Boundary \/ LoopEndedItself) => Retained = 1..page

\* C2: after the loop, page equals the number of compared fingerprints that
\* differ from their predecessor.
C2Claim == LoopEndedItself => page = ndiff

\* C3 as stated: once five consecutive equal fingerprints, preceded by a
\* differing one, have been compared and the iteration is over, the loop has
\* ended in TerminatedComplete with same_count = 5.
C3Original ==
    (eqrun >= DupLimit /\ ndiff >= 2 /\ (Boundary \/ LoopEndedItself))
        => (term = "Complete" /\ same_count = DupLimit)

\* C3 amended: the trigger needs five fingerprints equal to the one of the
\* frame retained last, a run of six equal fingerprints. The loop ends in
\* TerminatedComplete only then, with same_count exactly 5; after the sixth
\* it is in the duplicate handling or has ended Complete or Cancelled; a
\* run of five leaves same_count at 4 and the loop Running.
C3Amended ==
    /\ term = "Complete" => (same_count = DupLimit /\ eqrun = DupLimit + 1)
    /\ eqrun = DupLimit + 1 =>
          \/ pc \in {"unlink", "dec", "check"}
          \/ term \in {"Complete", "Cancelled"}
    /\ (eqrun = DupLimit /\ Boundary) =>
          (same_count = DupLimit - 1 /\ term = "Running")
C3Witness ==
    pc = "after" /\ term = "Complete" /\ eqrun = DupLimit + 1 /\ ndiff >= 2

\* C4 as stated: after [A, B, B, B, B, B] with a ceiling above 2 only A's
\* frame is retained, page = 1 and the loop has ended in TerminatedComplete.
C4Original ==
    (scripted /\ feed = FeedAB5 /\ fpos = Len(feed) /\ max_pages > 2
        /\ (Boundary \/ LoopEndedItself))
        => (Retained = {1} /\ files[1] = A /\ page = 1 /\ term = "Complete")

\* C4 amended: [A, B, B, B, B, B] with a ceiling above 2 retains the two
\* frames A, B with page = 2 and leaves the loop Running with same_count = 4;
\* a sixth B ends it in TerminatedComplete with the same two frames and
\* page = 2.
C4Amended ==
    /\ (scripted /\ feed = FeedAB5 /\ max_pages > 2) =>
          /\ term \in {"Running", "Cancelled"}
          /\ (fpos = Len(feed) /\ Boundary) =>
                (StoreAB /\ page = 2 /\ same_count = DupLimit - 1)
    /\ (scripted /\ feed = FeedAB6 /\ max_pages > 2) =>
          /\ term \in {"Running", "Cancelled", "Complete"}
          /\ term = "Complete" =>
                (fpos = Len(feed) /\ page = 2
                 /\ (pc = "after" => StoreAB))
C4Witness ==
    scripted /\ feed = FeedAB6 /\ pc = "after" /\ term = "Complete"

\* C5: max_pages fingerprints, each differing from the one before, all
\* captures succeeding: the loop starts no further iteration, ends by the
\* page ceiling and not by the duplicate break, with page = max_pages and the
\* fed frames retained in feed order.
C5Ceiling ==
    (scripted /\ feed \in DistinctFeeds /\ Len(feed) = max_pages) =>
        /\ term \in {"Running", "Ceiling", "Cancelled"}
        /\ fpos = Len(feed) => pc # "capture"
        /\ (fpos = Len(feed) /\ Boundary) =>
              (page = max_pages /\ files = feed)
        /\ (pc = "after" /\ term = "Ceiling") =>
              (page = max_pages /\ files = feed)
C5Witness ==
    /\ scripted /\ feed = <<A, B, C, D>> /\ max_pages = 4
    /\ pc = "after" /\ term = "Ceiling" /\ page = 4
    /\ Retained = 1..4 /\ files[4] = D

\* C6: a cancelled loop leaves page equal to the number of retained frames,
\* no frame of an index above page and no frame that duplicates its
\* predecessor.
C6Claim ==
    (pc = "after" /\ term = "Cancelled") =>
        /\ page = Cardinality(Retained)
        /\ \A i \in Retained : i <= page
        /\ NoAdjacentDuplicate

\* C7: capture failures alone never advance page, leave no gap and do not
\* end the loop.
C7Claim ==
    (nfail > 0 /\ ndiff = 0 /\ (Boundary \/ LoopEndedItself)) =>
        (page = 0 /\ Retained = {} /\ term = "Running")

\* C8: cancellation deletes no frame, and outside test mode post-processing
\* and assembly run over the frames left, so that a path is returned
\* whenever a frame is in the store.
C8CancelKeepsFrames ==
    [][/\ (term = "Running" /\ term' = "Cancelled") =>
             (files' = files /\ folder' = folder)
       /\ (term = "Cancelled" /\ ~test_mode /\ pc = "after") =>
             (pc' = "process" /\ files' = files)
       /\ (term = "Cancelled" /\ ~test_mode /\ pc = "process") =>
             (pc' = "pdf" /\ files' = files /\ processed' = Retained)
       /\ (term = "Cancelled" /\ ~test_mode /\ pc = "pdf" /\ Retained # {}) =>
             /\ result' = "pdf"
             /\ pdf'.exists
             /\ Len(pdf'.pages) = Cardinality(Retained)]_vars
C8Witness ==
    /\ term = "Cancelled" /\ ~test_mode /\ pc = "done" /\ result = "pdf"
    /\ page < max_pages /\ Len(pdf.pages) >= 1

\* C9 as stated: when assembly failed on an empty store, the folder is
\* deleted and no path is returned.
C9Original ==
    (pc = "done" /\ asm = "failed") => (~folder /\ result = "None")

\* C9 amended: assembly fails on an empty store only outside test mode; no
\* path is returned and the (empty) folder is left in place. In test mode a
\* store of fewer than 3 frames ends the run before assembly, with the
\* folder deleted and no path returned.
C9Amended ==
    /\ asm = "failed" =>
          (~test_mode /\ pc = "done" /\ result = "None" /\ folder
           /\ Retained = {})
    /\ (pc = "done" /\ test_mode /\ term # "Running" /\ result = "None") =>
          (~folder /\ asm = "none")
C9Witness ==
    pc = "done" /\ asm = "failed" /\ folder /\ term = "Ceiling" /\ nfail > 0

\* C10: images_to_pdf fails and writes no document when the store is empty,
\* and writes a document only from at least one frame.
C10EmptyFails ==
    /\ asm = "failed" => (~pdf.exists /\ Retained = {})
    /\ asm = "ok" => (pdf.exists /\ Len(pdf.pages) >= 1)
    /\ pdf.exists => asm = "ok"
C10Witness ==
    pc = "done" /\ asm = "failed" /\ term = "Cancelled" /\ ~pdf.exists

\* ------------------------------------------------------------ claims C12..
DupPcs == {"unlink", "dec", "check"}

C14Original == (pc = "after" /\ term = "Complete") => advances = 1

\* C14 amended: an iteration that captured a frame and does not end the
\* loop invokes next_page exactly once, on either branch; the duplicate
\* iteration on which same_count reaches 5 breaks before the advance.
C14Amended ==
    [][/\ (pc \in {"check", "sethash"} /\ term' = "Running") =>
             (pc' = "advance" /\ advances' = 0)
       /\ (pc = "advance" /\ term' = "Running") =>
             (pc' = "while" /\ advances' = 1)
       /\ (pc = "check" /\ term' = "Complete") =>
             (advances' = 0 /\ same_count = DupLimit)]_vars
C14Witness == pc = "after" /\ term = "Complete" /\ advances = 0

\* C15 as stated: in an iteration whose re-query of the bounds returned
\* None no frame is captured.
C15Original == bounds_stale => page \notin Retained

\* C15 amended: an unavailable re-query keeps the previous bounds and the
\* capture is attempted with them; the loop stays Running and never
\* captures without bounds.
C15Amended ==
    /\ pc \in LoopPcs => bounds = Rect
    /\ (bounds_stale /\ term = "Running") => pc \in {"capture", "hash"}
C15Witness ==
    pc = "hash" /\ bounds_stale /\ page \in Retained /\ term = "Running"

\* C16: a failed capture leaves last_hash, same_count and failed_turns as
\* they were, so that at every boundary same_count is the length of the run
\* of equal fingerprints compared last, less one, whatever failures fell in
\* between.
C16FailureKeepsCounters ==
    [][/\ (pc = "capture" /\ pc' = "while") =>
             /\ last_hash' = last_hash
             /\ same_count' = same_count
             /\ failed_turns' = failed_turns
             /\ term' = term
       /\ (pc' \in {"while", "capture"} /\ term' = "Running" /\ eqrun' >= 1)
             => same_count' = eqrun' - 1]_vars
C16Witness ==
    pc = "while" /\ advances = 0 /\ nfail > 0 /\ same_count >= 1

\* C17: cancellation takes effect at an iteration boundary only.
C17Claim ==
    [][(term = "Running" /\ term' = "Cancelled") => pc = "while"]_vars

\* C18: the first captured frame takes the progress branch, same_count
\* starts at 0, and the end-of-document trigger fires only after a run of
\* six equal fingerprints, five iterations having completed before.
C18FirstIsProgress ==
    /\ last_hash = None => (same_count = 0 /\ pc \notin DupPcs)
    /\ ndiff = 0 => (last_hash = None /\ term # "Complete")
    /\ pc = "sethash" /\ last_hash = None => ndiff = 1
    /\ term = "Complete" =>
          (eqrun >= DupLimit + 1 /\ (scripted => fpos - 1 >= DupLimit))
C18Witness == pc = "sethash" /\ last_hash = None /\ ndiff = 1

Variant(p, sc) == DupLimit * (max_pages - p) - sc
Rank ==
    CASE pc = "while" -> 10 * Variant(page, same_count)
      [] pc = "capture" -> 10 * Variant(page - 1, same_count) - 1
      [] pc = "hash" -> 10 * Variant(page - 1, same_count) - 2
      [] pc = "unlink" -> 10 * Variant(page - 1, same_count) + 5
      [] pc = "dec" -> 10 * Variant(page - 1, same_count) + 4
      [] pc = "check" -> 10 * Variant(page, same_count) + 3
      [] pc = "sethash" -> 10 * Variant(page, same_count) + 2
      [] pc = "advance" -> 10 * Variant(page, same_count) + 1
      [] OTHER -> 0
C20Terminates ==
    /\ [](iters <= DupLimit * max_pages)
    /\ [](pc = "capture" => Variant(page - 1, same_count) >= 1)
    /\ [](pc = "while" => iters <= DupLimit * page + same_count)
    /\ [][(pc \in LoopPcs /\ pc' \in LoopPcs) => Rank' < Rank]_vars
    /\ <>(pc = "done" /\ term \in {"Running", "Ceiling", "Complete"})
C20Witness ==
    /\ pc = "after"
    /\ term \in {"Ceiling", "Complete"}
    /\ max_pages >= 2
    /\ iters = DupLimit * max_pages - (DupLimit - 1)

\* C11: the process exits with 0 exactly when every requested run (one in
\* manual, auto and verification mode, one per name after --books) yielded
\* an output document; a setup failure and a run without a document give a
\* non-zero exit status.
NRequested ==
    IF args_test \/ args_books = <<>> THEN 1 ELSE Len(args_books)
AllProduced ==
    /\ Len(yielded) = NRequested
    /\ \A i \in 1..Len(yielded) : yielded[i] # "None"
C11Claim == mpc = "exited" => (exit_code = 0 <=> AllProduced)

\* C21: at every iteration boundary last_hash is None while no frame is
\* retained and otherwise the fingerprint of the retained frame of highest
\* index, and no retained frame has the fingerprint of the retained frame
\* just before it in index order; the same holds when the loop has ended by
\* itself.
Max(S) == CHOOSE x \in S : \A y \in S : x >= y
RetainedSeq == SortedIdx(Retained)
NoRepeatInSequence ==
    \A k \in 1..(Len(RetainedSeq) - 1) :
        files[RetainedSeq[k]] # files[RetainedSeq[k + 1]]
C21LastHash ==
    (Boundary \/ LoopEndedItself) =>
        /\ IF Retained = {} THEN last_hash = None
           ELSE last_hash = files[Max(Retained)]
        /\ NoRepeatInSequence
C21Witness ==
    /\ Boundary
    /\ term = "Running"
    /\ nfail > 0
    /\ eqrun >= 2
    /\ Cardinality(Retained) >= 2
    /\ Retained # 1..Cardinality(Retained)

\* C22: the phases of one run are ordered: process_images starts only when
\* the loop has ended, images_to_pdf starts only when process_images has
\* rewritten every stored frame, and the session folder is removed only by a
\* successful images_to_pdf or by a failed verification check, never while
\* the loop runs and never before the frames are assembled.
C22PhaseOrder ==
    /\ [](pc \in LoopPcs =>
            folder /\ processed = {} /\ asm = "none" /\ term = "Running")
    /\ [](pc \in {"process", "pdf"} => folder /\ term # "Running")
    /\ [](pc = "pdf" => processed = Retained /\ asm = "none")
    /\ [][processed' # processed => pc = "process" /\ term # "Running"]_vars
    /\ [][asm' # asm => pc = "pdf" /\ processed = Retained]_vars
    /\ [][(folder /\ ~folder') =>
             /\ term # "Running"
             /\ \/ pc = "pdf" /\ asm' = "ok" /\ Len(pdf'.pages) = Cardinality(Retained)
                \/ pc = "after" /\ test_mode
                   /\ Cardinality(Retained) < TestMinFrames]_vars
C22Witness ==
    /\ pc = "done"
    /\ ~test_mode
    /\ term = "Complete"
    /\ asm = "ok"
    /\ ~folder
    /\ processed # {}
    /\ Len(pdf.pages) = Cardinality(processed)
====
